---------------------------- MODULE Spec2Model ----------------------------
(***************************************************************************)
(* Wumpus World (src/Wumpus_world.py): the game engine (class WumpusWorld),*)
(* the arrow projectile, the CSV high-score store and the event loop of    *)
(* main() that drives them.                                                *)
(*                                                                         *)
(* Coordinates are pairs <<row, col>>, 0-indexed.  ArrowProjectile.frac    *)
(* and .speed are kept in hundredths of a cell (0.18 -> 18, 1.0 -> 100).   *)
(* The display-only fields of the engine (message, popups, aim_dir) are    *)
(* written but never read by any engine decision and are left out.         *)
(***************************************************************************)
EXTENDS Integers, Sequences, FiniteSets, TLC

VARIABLES
    game,        \* the WumpusWorld object (a record of its fields)
    file,        \* wumpus_highscores.csv: [exists, rows]
    now,         \* the wall clock read by datetime.now(), in seconds
    buttons,     \* main(): the labels of the button list built last
    prev_state,  \* main(): game_state when this frame's event loop began
    gens,        \* boards generated since construction (start / restart)
    inputs,      \* input events (calls) handled in the current game instance
    loaded,      \* high score loaded by the constructor (history)
    peak,        \* largest score reached since construction (history)
    last         \* the last direct call of the store (SpecStore)

vars == <<game, file, now, buttons, prev_state, gens, inputs, loaded, peak, last>>

(***************************************************************************)
(* Bounds of the model.                                                    *)
(***************************************************************************)
\* grid_size handed to WumpusWorld(...): the menu offers 4, 6, 8, 10 and 16;
\* 3 is the smallest size whose board generation returns.
GridSize    == 3
MaxInputs   == 3   \* input events per game instance (Spec)
MaxInputsR  == 2   \* input events per game instance (SpecRestart)
MaxGens     == 2   \* boards generated after construction (SpecRestart, SpecGen)
MaxCalls    == 2   \* method calls per game instance (SpecEngine)
MaxTime     == 2   \* clock values (SpecStore)
MaxSaves    == 3   \* save_high_score calls per run (SpecStore)
MaxInputsP  == 2   \* input events after START GAME (SpecPercepts)
MaxGrid     == 3   \* largest grid size constructed (SpecPlace)
MaxInputsT  == 2   \* input events after START GAME (SpecTicks)
MaxInputsW  == 4   \* input events after START GAME (SpecWin)

(***************************************************************************)
(* Program constants.                                                      *)
(***************************************************************************)
ArrowSpeed  == 18     \* ArrowProjectile.speed = 0.18
FullCell    == 100    \* the threshold 1.0 of update_arrow
VisitBonus  == 10
GoldBonus   == 1000
KillBonus   == 300
ArrowCost   == 50

Start00 == <<0, 0>>
Dirs    == {<<-1, 0>>, <<1, 0>>, <<0, -1>>, <<0, 1>>}

Cells(n) == (0 .. n - 1) \X (0 .. n - 1)

InGrid(n, r, c) == 0 <= r /\ r < n /\ 0 <= c /\ c < n

(***************************************************************************)
(* HIGH SCORE PERSISTENCE                                                  *)
(* The file is absent, or a header plus rows (grid_size, score, date).     *)
(***************************************************************************)
NoFile == [exists |-> FALSE, rows |-> <<>>]

Row(gs, sc, dt) == [grid_size |-> gs, score |-> sc, date |-> dt]

\* A row whose grid_size or score field int() cannot parse.
BadRow == [bad |-> TRUE]

Malformed(r) == "bad" \in DOMAIN r

\* Mutant of first_match: the return is not under the grid-size test.
first_match_mut(rows, grid_size) ==
    IF rows = <<>> THEN 0 ELSE Head(rows).score

\* load_high_score: the score of the first row whose grid_size matches, else 0;
\* a malformed row met before it raises in int(), and the except clause
\* makes the function return 0.
RECURSIVE first_match(_, _)
first_match(rows, grid_size) ==
    IF rows = <<>> THEN 0
    ELSE IF Malformed(Head(rows)) THEN 0
    ELSE IF Head(rows).grid_size = grid_size THEN Head(rows).score
    ELSE first_match(Tail(rows), grid_size)

load_high_score(f, grid_size) ==
    IF ~f.exists THEN 0 ELSE first_match(f.rows, grid_size)

\* Mutant of read_scores: only the last row is kept.
read_scores_mut(rows, scores) ==
    IF rows = <<>> THEN scores
    ELSE [k \in {rows[Len(rows)].grid_size} |->
             [score |-> rows[Len(rows)].score, date |-> rows[Len(rows)].date]]

\* The dict `scores` built by the reading loop: a later row of the same
\* grid size overwrites an earlier one; a malformed row raises, the except
\* clause ends the reading and the rows read so far stay in the dict.
RECURSIVE read_scores(_, _)
read_scores(rows, scores) ==
    IF rows = <<>> THEN scores
    ELSE IF Malformed(Head(rows)) THEN scores
    ELSE LET r  == Head(rows)
             e  == [score |-> r.score, date |-> r.date]
             s1 == [k \in DOMAIN scores \cup {r.grid_size} |->
                        IF k = r.grid_size THEN e ELSE scores[k]]
         IN  read_scores(Tail(rows), s1)

EmptyDict == [k \in {} |-> 0]

MinOf(S) == CHOOSE x \in S : \A y \in S : x <= y

\* The rows written back: sorted(scores.items()).
RECURSIVE sorted_rows(_, _)
sorted_rows(scores, keys) ==
    IF keys = {} THEN <<>>
    ELSE LET k == MinOf(keys)
         IN  <<Row(k, scores[k].score, scores[k].date)>>
             \o sorted_rows(scores, keys \ {k})

\* Mutant of save_high_score: the record is rewritten whatever the score.
save_high_score_mut(f, grid_size, score, t) ==
    LET scores  == IF f.exists THEN read_scores(f.rows, EmptyDict)
                   ELSE EmptyDict
        updated == [k \in DOMAIN scores \cup {grid_size} |->
                       IF k = grid_size
                       THEN [score |-> score, date |-> t]
                       ELSE scores[k]]
    IN  [exists |-> TRUE, rows |-> sorted_rows(updated, DOMAIN updated)]

save_high_score(f, grid_size, score, t) ==
    LET scores       == IF f.exists THEN read_scores(f.rows, EmptyDict)
                        ELSE EmptyDict
        current_high == IF grid_size \in DOMAIN scores
                        THEN scores[grid_size].score ELSE 0
        updated      == [k \in DOMAIN scores \cup {grid_size} |->
                            IF k = grid_size
                            THEN [score |-> score, date |-> t]
                            ELSE scores[k]]
    IN  IF score > current_high
        THEN [exists |-> TRUE, rows |-> sorted_rows(updated, DOMAIN updated)]
        ELSE f

\* get_all_high_scores: the mapping grid_size -> score built row by row; a
\* malformed row raises, `except Exception: pass` ends the reading and the
\* mapping built so far is returned.
RECURSIVE all_scores(_, _)
all_scores(rows, scores) ==
    IF rows = <<>> THEN scores
    ELSE IF Malformed(Head(rows)) THEN scores
    ELSE LET r == Head(rows)
         IN  all_scores(Tail(rows),
                        [k \in DOMAIN scores \cup {r.grid_size} |->
                            IF k = r.grid_size THEN r.score ELSE scores[k]])

get_all_high_scores(f) ==
    IF ~f.exists THEN EmptyDict ELSE all_scores(f.rows, EmptyDict)

\* The rows a reader of the file finds for a grid size, and their score
\* (0 when there is none).
Records(f, grid_size) ==
    IF ~f.exists THEN {}
    ELSE {f.rows[i] : i \in {j \in DOMAIN f.rows : f.rows[j].grid_size = grid_size}}

StoredScore(f, grid_size) ==
    IF Records(f, grid_size) = {} THEN 0
    ELSE (CHOOSE r \in Records(f, grid_size) : TRUE).score

(***************************************************************************)
(* WORLD GENERATION                                                        *)
(***************************************************************************)
\* Mutant of rand: only the start cell is excluded.
rand_mut(n, exclude) == {c \in Cells(n) : c # Start00}

\* _rand(exclude): the cells the rejection loop can return.  When the set
\* is empty the loop never ends and no world is produced.
rand(n, exclude) == {c \in Cells(n) : c \notin exclude}

\* The pits appended by the loop `for _ in range(num_pits)`; the list is
\* read only through membership tests, so it is kept as the set of its
\* elements (a repeated cell would show as a smaller set).
RECURSIVE pit_draws(_, _, _)
pit_draws(n, k, exclude) ==
    IF k = 0 THEN {{}}
    ELSE UNION { { {p} \cup rest : rest \in pit_draws(n, k - 1, exclude \cup {p}) }
                 : p \in rand(n, exclude) }

\* The placements _init_board can draw for a grid of size n with k pits.
board_draws(n, k) ==
    UNION { UNION { { [wumpus |-> w, gold |-> g, pits |-> P]
                      : P \in pit_draws(n, k, {Start00, w, g}) }
                    : g \in rand(n, {Start00, w}) }
            : w \in rand(n, {Start00}) }

Worlds == board_draws(GridSize, GridSize)


(***************************************************************************)
(* ARROW PROJECTILE                                                        *)
(***************************************************************************)
NoArrow == [none |-> TRUE]

\* Mutant of ArrowProjectile.__init__: the arrow is born with hit_wumpus set.
ArrowProjectile_mut(start_row, start_col, dr, dc) ==
    [row |-> start_row, col |-> start_col, dr |-> dr, dc |-> dc,
     frac |-> 0, done |-> FALSE, hit_wumpus |-> TRUE]

\* ArrowProjectile.__init__
ArrowProjectile(start_row, start_col, dr, dc) ==
    [row |-> start_row, col |-> start_col, dr |-> dr, dc |-> dc,
     frac |-> 0, done |-> FALSE, hit_wumpus |-> FALSE]

InFlight(g) == g.arrow # NoArrow /\ ~g.arrow.done

(***************************************************************************)
(* GAME CLASS                                                              *)
(* Every method is an operator from the pair S = [game, file] (the object  *)
(* and the file it writes through save_high_score) to the pair after the   *)
(* call; t is the clock value a save would stamp.                          *)
(***************************************************************************)
Sys(g, f) == [game |-> g, file |-> f]

\* Mutant of init_board: scored_cells is not seeded with the start cell.
init_board_mut(g, w) ==
    [g EXCEPT !.agent_pos    = Start00,
              !.agent_alive  = TRUE,
              !.has_gold     = FALSE,
              !.wumpus_alive = TRUE,
              !.arrow_used   = FALSE,
              !.visited      = {Start00},
              !.scored_cells = {},
              !.score        = 0,
              !.arrow        = NoArrow,
              !.wumpus       = w.wumpus,
              !.gold         = w.gold,
              !.pits         = w.pits]

\* _init_board with the placement w drawn by its _rand calls.
init_board(g, w) ==
    [g EXCEPT !.agent_pos    = Start00,
              !.agent_alive  = TRUE,
              !.has_gold     = FALSE,
              !.wumpus_alive = TRUE,
              !.arrow_used   = FALSE,
              !.visited      = {Start00},
              !.scored_cells = {Start00},
              !.score        = 0,
              !.arrow        = NoArrow,
              !.wumpus       = w.wumpus,
              !.gold         = w.gold,
              !.pits         = w.pits]

\* Mutant of BlankGame: num_pits is the number of cells.
BlankGame_mut(n) ==
    [grid_size |-> n, num_pits |-> n * n, high_score |-> 0, game_state |-> "MENU",
     agent_pos |-> Start00, agent_alive |-> TRUE, has_gold |-> FALSE,
     wumpus_alive |-> TRUE, arrow_used |-> FALSE, visited |-> {Start00},
     scored_cells |-> {Start00}, score |-> 0, arrow |-> NoArrow,
     wumpus |-> Start00, gold |-> Start00, pits |-> {}]

\* WumpusWorld.__init__: fields, the high score loaded from the CSV, the
\* state MENU and a first board.
BlankGame(n) ==
    [grid_size |-> n, num_pits |-> n, high_score |-> 0, game_state |-> "MENU",
     agent_pos |-> Start00, agent_alive |-> TRUE, has_gold |-> FALSE,
     wumpus_alive |-> TRUE, arrow_used |-> FALSE, visited |-> {Start00},
     scored_cells |-> {Start00}, score |-> 0, arrow |-> NoArrow,
     wumpus |-> Start00, gold |-> Start00, pits |-> {}]

NewGame(n, f, w) ==
    init_board([BlankGame(n) EXCEPT !.high_score = load_high_score(f, n)], w)

\* Mutant of adjacent: the neighbours wrap around the edges.
adjacent_mut(g, pos) ==
    {<<(pos[1] + d[1]) % g.grid_size, (pos[2] + d[2]) % g.grid_size>> : d \in Dirs}

\* adjacent(pos)
adjacent(g, pos) ==
    LET x == pos[1]
        y == pos[2]
    IN  (IF x > 0               THEN {<<x - 1, y>>} ELSE {}) \cup
        (IF x < g.grid_size - 1 THEN {<<x + 1, y>>} ELSE {}) \cup
        (IF y > 0               THEN {<<x, y - 1>>} ELSE {}) \cup
        (IF y < g.grid_size - 1 THEN {<<x, y + 1>>} ELSE {})

\* percepts()
percepts(g) ==
    (IF \E pit \in g.pits : pit \in adjacent(g, g.agent_pos)
     THEN {"Breeze"} ELSE {}) \cup
    (IF g.wumpus_alive /\ g.wumpus \in adjacent(g, g.agent_pos)
     THEN {"Stench"} ELSE {}) \cup
    (IF g.agent_pos = g.gold /\ ~g.has_gold THEN {"Glitter"} ELSE {})

\* Mutant of add_score: the new high score is not saved.
add_score_mut(S, pts, t) ==
    LET g1 == [S.game EXCEPT !.score = @ + pts]
    IN  IF g1.score > g1.high_score
        THEN Sys([g1 EXCEPT !.high_score = g1.score], S.file)
        ELSE Sys(g1, S.file)

\* _add_score(pts, row, col): the popup is display only.
add_score(S, pts, t) ==
    LET g1 == [S.game EXCEPT !.score = @ + pts]
    IN  IF g1.score > g1.high_score
        THEN Sys([g1 EXCEPT !.high_score = g1.score],
                 save_high_score(S.file, g1.grid_size, g1.score, t))
        ELSE Sys(g1, S.file)

\* Mutant of update_arrow: frac is not reset when the arrow enters a cell.
update_arrow_mut(S, t) ==
    LET g == S.game
        a == g.arrow
    IN  IF a = NoArrow \/ a.done THEN S
        ELSE IF a.frac + ArrowSpeed >= FullCell
        THEN LET r  == a.row + a.dr
                 c  == a.col + a.dc
                 a1 == [a EXCEPT !.row = r, !.col = c, !.frac = @ + ArrowSpeed]
             IN  IF g.wumpus_alive /\ <<r, c>> = g.wumpus
                 THEN add_score(
                        Sys([g EXCEPT !.arrow = [a1 EXCEPT !.hit_wumpus = TRUE,
                                                           !.done = TRUE],
                                      !.wumpus_alive = FALSE],
                            S.file),
                        KillBonus, t)
                 ELSE IF ~InGrid(g.grid_size, r, c)
                 THEN Sys([g EXCEPT !.arrow = [a1 EXCEPT !.done = TRUE]], S.file)
                 ELSE Sys([g EXCEPT !.arrow = a1], S.file)
        ELSE Sys([g EXCEPT !.arrow = [a EXCEPT !.frac = @ + ArrowSpeed]], S.file)

\* Mutant of update_arrow: frac wraps around and the arrow never leaves its
\* cell.
update_arrow_stall(S, t) ==
    LET g == S.game
        a == g.arrow
    IN  IF a = NoArrow \/ a.done THEN S
        ELSE Sys([g EXCEPT !.arrow = [a EXCEPT !.frac = (@ + ArrowSpeed) % FullCell]],
                 S.file)

\* Mutant of update_arrow: the arrow advances two cells at a time.
update_arrow_jump(S, t) ==
    LET g == S.game
        a == g.arrow
    IN  IF a = NoArrow \/ a.done THEN S
        ELSE IF a.frac + ArrowSpeed >= FullCell
        THEN LET r  == a.row + 2 * a.dr
                 c  == a.col + 2 * a.dc
                 a1 == [a EXCEPT !.row = r, !.col = c, !.frac = 0]
             IN  IF ~InGrid(g.grid_size, r, c)
                 THEN Sys([g EXCEPT !.arrow = [a1 EXCEPT !.done = TRUE]], S.file)
                 ELSE Sys([g EXCEPT !.arrow = a1], S.file)
        ELSE Sys([g EXCEPT !.arrow = [a EXCEPT !.frac = @ + ArrowSpeed]], S.file)

\* update_arrow(): one tick of the projectile.
update_arrow(S, t) ==
    LET g == S.game
        a == g.arrow
    IN  IF a = NoArrow \/ a.done THEN S
        ELSE IF a.frac + ArrowSpeed >= FullCell
        THEN LET r  == a.row + a.dr
                 c  == a.col + a.dc
                 a1 == [a EXCEPT !.row = r, !.col = c, !.frac = 0]
             IN  IF g.wumpus_alive /\ <<r, c>> = g.wumpus
                 THEN add_score(
                        Sys([g EXCEPT !.arrow = [a1 EXCEPT !.hit_wumpus = TRUE,
                                                           !.done = TRUE],
                                      !.wumpus_alive = FALSE],
                            S.file),
                        KillBonus, t)
                 ELSE IF ~InGrid(g.grid_size, r, c)
                 THEN Sys([g EXCEPT !.arrow = [a1 EXCEPT !.done = TRUE]], S.file)
                 ELSE Sys([g EXCEPT !.arrow = a1], S.file)
        ELSE Sys([g EXCEPT !.arrow = [a EXCEPT !.frac = @ + ArrowSpeed]], S.file)

\* Mutant of enter_aim_mode: aiming is offered again after the shot.
enter_aim_mode_mut(S) ==
    IF S.game.game_state # "PLAYING" THEN S
    ELSE Sys([S.game EXCEPT !.game_state = "AIM"], S.file)

\* enter_aim_mode()
enter_aim_mode(S) ==
    IF S.game.arrow_used \/ S.game.game_state # "PLAYING" THEN S
    ELSE Sys([S.game EXCEPT !.game_state = "AIM"], S.file)

\* Mutant of fire_arrow: arrow_used is not latched.
fire_arrow_mut(S, dr, dc, t) ==
    IF S.game.arrow_used THEN S
    ELSE LET g1 == [S.game EXCEPT !.game_state = "PLAYING"]
             S2 == add_score(Sys(g1, S.file), 0 - ArrowCost, t)
         IN  Sys([S2.game EXCEPT !.arrow =
                     ArrowProjectile(g1.agent_pos[1], g1.agent_pos[2], dr, dc)],
                 S2.file)

\* Mutant of fire_arrow: the shot is not charged.
fire_arrow_free(S, dr, dc, t) ==
    IF S.game.arrow_used THEN S
    ELSE LET g1 == [S.game EXCEPT !.arrow_used = TRUE,
                                  !.game_state = "PLAYING"]
         IN  Sys([g1 EXCEPT !.arrow =
                     ArrowProjectile(g1.agent_pos[1], g1.agent_pos[2], dr, dc)],
                 S.file)

\* fire_arrow(dr, dc)
fire_arrow(S, dr, dc, t) ==
    IF S.game.arrow_used THEN S
    ELSE LET g1 == [S.game EXCEPT !.arrow_used = TRUE,
                                  !.game_state = "PLAYING"]
             S2 == add_score(Sys(g1, S.file), 0 - ArrowCost, t)
         IN  Sys([S2.game EXCEPT !.arrow =
                     ArrowProjectile(g1.agent_pos[1], g1.agent_pos[2], dr, dc)],
                 S2.file)

\* cancel_aim()
cancel_aim(S) == Sys([S.game EXCEPT !.game_state = "PLAYING"], S.file)

\* Mutant of check_danger: the wumpus cell is lethal dead or alive.
check_danger_mut(g) ==
    IF g.agent_pos \in g.pits
    THEN [g EXCEPT !.agent_alive = FALSE, !.game_state = "GAME_OVER"]
    ELSE IF g.agent_pos = g.wumpus
    THEN [g EXCEPT !.agent_alive = FALSE, !.game_state = "GAME_OVER"]
    ELSE g

\* _check_danger()
check_danger(g) ==
    IF g.agent_pos \in g.pits
    THEN [g EXCEPT !.agent_alive = FALSE, !.game_state = "GAME_OVER"]
    ELSE IF g.agent_pos = g.wumpus /\ g.wumpus_alive
    THEN [g EXCEPT !.agent_alive = FALSE, !.game_state = "GAME_OVER"]
    ELSE g

\* The local `safe` of move().
safe(g, cell) ==
    cell \notin g.pits /\ ~(cell = g.wumpus /\ g.wumpus_alive)

\* Mutant of move: the bounds test is missing.
move_mut(S, dx, dy, t) ==
    LET g  == S.game
        nx == g.agent_pos[1] + dx
        ny == g.agent_pos[2] + dy
    IN  IF g.game_state # "PLAYING" THEN S
        ELSE Sys([g EXCEPT !.agent_pos = <<nx, ny>>,
                           !.visited   = @ \cup {<<nx, ny>>}],
                 S.file)

\* move(dx, dy)
move(S, dx, dy, t) ==
    LET g  == S.game
        nx == g.agent_pos[1] + dx
        ny == g.agent_pos[2] + dy
    IN  IF g.game_state # "PLAYING" THEN S
        ELSE IF ~InGrid(g.grid_size, nx, ny) THEN S
        ELSE LET g1 == [g EXCEPT !.agent_pos = <<nx, ny>>,
                                 !.visited   = @ \cup {<<nx, ny>>}]
                 S2 == IF safe(g1, <<nx, ny>>) /\ <<nx, ny>> \notin g1.scored_cells
                       THEN add_score(
                              Sys([g1 EXCEPT !.scored_cells = @ \cup {<<nx, ny>>}],
                                  S.file),
                              VisitBonus, t)
                       ELSE Sys(g1, S.file)
                 g3 == check_danger(S2.game)
             IN  IF g3.has_gold /\ g3.agent_pos = Start00
                    /\ g3.game_state = "PLAYING"
                 THEN Sys([g3 EXCEPT !.game_state = "WIN"], S2.file)
                 ELSE Sys(g3, S2.file)

\* Mutant of grab: the gold is taken again while carrying it.
grab_mut(S, t) ==
    LET g == S.game
    IN  IF g.game_state # "PLAYING" THEN S
        ELSE LET S2 == IF g.agent_pos = g.gold
                       THEN add_score(Sys([g EXCEPT !.has_gold = TRUE], S.file),
                                      GoldBonus, t)
                       ELSE S
             IN  IF S2.game.has_gold /\ g.agent_pos = Start00
                 THEN Sys([S2.game EXCEPT !.game_state = "WIN"], S2.file)
                 ELSE S2

\* Mutant of grab: the gold's coordinate is cleared when it is picked up.
grab_clear(S, t) ==
    LET g == S.game
    IN  IF g.game_state # "PLAYING" THEN S
        ELSE LET S2 == IF g.agent_pos = g.gold /\ ~g.has_gold
                       THEN add_score(Sys([g EXCEPT !.has_gold = TRUE,
                                                    !.gold = <<-1, -1>>],
                                          S.file),
                                      GoldBonus, t)
                       ELSE S
             IN  IF S2.game.has_gold /\ g.agent_pos = Start00
                 THEN Sys([S2.game EXCEPT !.game_state = "WIN"], S2.file)
                 ELSE S2

\* grab()
grab(S, t) ==
    LET g == S.game
    IN  IF g.game_state # "PLAYING" THEN S
        ELSE LET S2 == IF g.agent_pos = g.gold /\ ~g.has_gold
                       THEN add_score(Sys([g EXCEPT !.has_gold = TRUE], S.file),
                                      GoldBonus, t)
                       ELSE S
             IN  IF S2.game.has_gold /\ g.agent_pos = Start00
                 THEN Sys([S2.game EXCEPT !.game_state = "WIN"], S2.file)
                 ELSE S2

\* Mutant of restart: the projectile of the previous instance is kept.
restart_mut(S, w) ==
    Sys([init_board(S.game, w) EXCEPT !.arrow = S.game.arrow,
                                      !.game_state = "PLAYING"],
        S.file)

\* restart() with the placement w drawn by _init_board.
restart(S, w) ==
    LET hs == S.game.high_score
    IN  Sys([init_board(S.game, w) EXCEPT !.high_score = hs,
                                          !.game_state = "PLAYING"],
            S.file)

\* main(): the START GAME button.
start_game(S, w) ==
    Sys([init_board(S.game, w) EXCEPT !.game_state = "PLAYING"], S.file)

(***************************************************************************)
(* MAIN LOOP                                                               *)
(* One iteration of `while running` is a frame: update_arrow, the drawing, *)
(* prev_state = game_state, then every queued event in turn, then the      *)
(* button list is rebuilt if game_state differs from prev_state.  A click  *)
(* is matched against the button list as it stood when the frame began.    *)
(* EXIT, QUIT and the 60-frame exit after WIN only end the loop: the       *)
(* program stops, which every behaviour may do at any state.               *)
(***************************************************************************)
\* build_buttons(state): the labels of the buttons it returns.
build_buttons(state) ==
    CASE state = "MENU"                 -> {"START GAME"}
      [] state \in {"PLAYING", "AIM"}   -> {"PAUSE", "RESTART", "EXIT"}
      [] state = "PAUSED"               -> {"RESUME", "RESTART", "EXIT"}
      [] state \in {"GAME_OVER", "WIN"} -> {"PLAY AGAIN", "EXIT"}
      [] OTHER                          -> {}

Max(a, b) == IF a >= b THEN a ELSE b

NoCall == [op |-> "none", gs |-> 0, score |-> 0, before |-> 0, result |-> 0]

\* The pair S is the outcome of one handled event.
Handled(S) ==
    /\ game' = S.game
    /\ file' = S.file
    /\ peak' = Max(peak, S.game.score)
    /\ inputs' = inputs + 1
    /\ UNCHANGED <<now, buttons, prev_state, gens, loaded, last>>

\* The pair S is the outcome of an event that generated a new board.
Generated(S) ==
    /\ game' = S.game
    /\ file' = S.file
    /\ peak' = Max(peak, S.game.score)
    /\ inputs' = 0
    /\ gens' = gens + 1
    /\ UNCHANGED <<now, buttons, prev_state, loaded, last>>

\* Mutant of the frame: the projectile is updated only while the game is
\* being played (PLAYING or AIM).
Frame_gated ==
    /\ LET S == IF game.game_state \in {"PLAYING", "AIM"}
                THEN update_arrow(Sys(game, file), now)
                ELSE Sys(game, file)
       IN  /\ game' = S.game
           /\ file' = S.file
           /\ peak' = Max(peak, S.game.score)
           /\ prev_state' = S.game.game_state
    /\ buttons' = IF game.game_state # prev_state
                  THEN build_buttons(game.game_state) ELSE buttons
    /\ UNCHANGED <<now, gens, inputs, loaded, last>>

\* The head of the loop body up to the event loop, preceded by the button
\* rebuild that ends the previous iteration.
Frame ==
    /\ LET S == update_arrow(Sys(game, file), now)
       IN  /\ game' = S.game
           /\ file' = S.file
           /\ peak' = Max(peak, S.game.score)
           /\ prev_state' = S.game.game_state
    /\ buttons' = IF game.game_state # prev_state
                  THEN build_buttons(game.game_state) ELSE buttons
    /\ UNCHANGED <<now, gens, inputs, loaded, last>>

\* Button clicks; W is the set of placements _init_board may draw.
DoClickStart(W) ==
    /\ "START GAME" \in buttons
    /\ \E w \in W : Generated(start_game(Sys(game, file), w))

DoClickPause ==
    /\ "PAUSE" \in buttons
    /\ Handled(Sys([game EXCEPT !.game_state = "PAUSED"], file))

DoClickResume ==
    /\ "RESUME" \in buttons
    /\ Handled(Sys([game EXCEPT !.game_state = "PLAYING"], file))

DoClickRestart(W) ==
    /\ "RESTART" \in buttons \/ "PLAY AGAIN" \in buttons
    /\ \E w \in W : Generated(restart(Sys(game, file), w))

\* Keyboard: the branch is chosen by game_state at the time of the event.
DoKeyArrow ==
    \E d \in Dirs :
        \/ /\ game.game_state = "AIM"
           /\ Handled(fire_arrow(Sys(game, file), d[1], d[2], now))
        \/ /\ game.game_state = "PLAYING"
           /\ Handled(move(Sys(game, file), d[1], d[2], now))

DoKeySpace ==
    \/ /\ game.game_state = "AIM"
       /\ Handled(cancel_aim(Sys(game, file)))
    \/ /\ game.game_state = "PLAYING"
       /\ Handled(enter_aim_mode(Sys(game, file)))

DoKeyEscape ==
    /\ game.game_state = "AIM"
    /\ Handled(cancel_aim(Sys(game, file)))

DoKeyG ==
    /\ game.game_state = "PLAYING"
    /\ Handled(grab(Sys(game, file), now))

DoKeyP ==
    \/ /\ game.game_state = "PLAYING"
       /\ Handled(Sys([game EXCEPT !.game_state = "PAUSED"], file))
    \/ /\ game.game_state = "PAUSED"
       /\ Handled(Sys([game EXCEPT !.game_state = "PLAYING"], file))

DoKeyR(W) ==
    /\ game.game_state \in {"PLAYING", "PAUSED"}
    /\ \E w \in W : Generated(restart(Sys(game, file), w))

\* The files an earlier session of the program can have left behind.
InitFiles ==
    {NoFile, [exists |-> TRUE, rows |-> <<Row(GridSize, 20, 1)>>]}

\* The state when `game = WumpusWorld(grid_size=...)` has returned and the
\* first frame is about to take its events; W and F are the placements and
\* the files considered.
Constructed(W, F) ==
    /\ file \in F
    /\ \E w \in W : game = NewGame(GridSize, file, w)
    /\ now = 1
    /\ buttons = build_buttons("MENU")
    /\ prev_state = "MENU"
    /\ gens = 0
    /\ inputs = 0
    /\ loaded = load_high_score(file, GridSize)
    /\ peak = 0
    /\ last = NoCall

(***************************************************************************)
(* Spec: one game instance on every board the generator can draw, from the *)
(* construction of the engine through the START GAME click, with at most   *)
(* MaxInputs input events after it and any number of frames; no score file *)
(* exists yet.                                                             *)
(***************************************************************************)
Init == Constructed(Worlds, {NoFile})

ClickStart  == gens = 0 /\ DoClickStart(Worlds)
ClickPause  == inputs < MaxInputs /\ DoClickPause
ClickResume == inputs < MaxInputs /\ DoClickResume
KeyArrow    == inputs < MaxInputs /\ DoKeyArrow
KeySpace    == inputs < MaxInputs /\ DoKeySpace
KeyEscape   == inputs < MaxInputs /\ DoKeyEscape
KeyG        == inputs < MaxInputs /\ DoKeyG
KeyP        == inputs < MaxInputs /\ DoKeyP

Next ==
    \/ Frame
    \/ ClickStart
    \/ ClickPause
    \/ ClickResume
    \/ KeyArrow
    \/ KeySpace
    \/ KeyEscape
    \/ KeyG
    \/ KeyP

Spec == Init /\ [][Next]_vars

(***************************************************************************)
(* SpecRestart: a session of several game instances (START GAME, RESTART,  *)
(* PLAY AGAIN, the r key) on the boards whose pits fill the last row.      *)
(***************************************************************************)
LastRow == {<<GridSize - 1, c>> : c \in 0 .. GridSize - 1}

RestartWorlds == {w \in Worlds : w.pits = LastRow}

InitRestart == Constructed(RestartWorlds, InitFiles)

RClickStart   == gens < MaxGens /\ DoClickStart(RestartWorlds)
RClickRestart == gens < MaxGens /\ DoClickRestart(RestartWorlds)
RKeyR         == gens < MaxGens /\ DoKeyR(RestartWorlds)
RClickPause   == inputs < MaxInputsR /\ DoClickPause
RClickResume  == inputs < MaxInputsR /\ DoClickResume
RKeyArrow     == inputs < MaxInputsR /\ DoKeyArrow
RKeySpace     == inputs < MaxInputsR /\ DoKeySpace
RKeyEscape    == inputs < MaxInputsR /\ DoKeyEscape
RKeyG         == inputs < MaxInputsR /\ DoKeyG
RKeyP         == inputs < MaxInputsR /\ DoKeyP

NextRestart ==
    \/ Frame
    \/ RClickStart
    \/ RClickRestart
    \/ RKeyR
    \/ RClickPause
    \/ RClickResume
    \/ RKeyArrow
    \/ RKeySpace
    \/ RKeyEscape
    \/ RKeyG
    \/ RKeyP

SpecRestart == InitRestart /\ [][NextRestart]_vars

(***************************************************************************)
(* SpecGen: board generation alone (construction, START GAME, RESTART,     *)
(* PLAY AGAIN, the r key) on every board the generator can draw.           *)
(***************************************************************************)
InitGen == Init

GenStart   == gens < MaxGens /\ DoClickStart(Worlds)
GenRestart == gens < MaxGens /\ DoClickRestart(Worlds)
GenKeyR    == gens < MaxGens /\ DoKeyR(Worlds)

NextGen ==
    \/ Frame
    \/ GenStart
    \/ GenRestart
    \/ GenKeyR

SpecGen == InitGen /\ [][NextGen]_vars

(***************************************************************************)
(* SpecEngine: the class WumpusWorld driven through its methods by any     *)
(* caller, in any state (the dispatch of main() is not in the way).  The  *)
(* caller starts the game at most once, before any other call.             *)
(***************************************************************************)
CallStart ==
    /\ gens = 0 /\ inputs = 0
    /\ \E w \in Worlds : Generated(start_game(Sys(game, file), w))

CallMove ==
    /\ inputs < MaxCalls
    /\ \E d \in Dirs : Handled(move(Sys(game, file), d[1], d[2], now))

CallGrab == inputs < MaxCalls /\ Handled(grab(Sys(game, file), now))

CallEnterAim == inputs < MaxCalls /\ Handled(enter_aim_mode(Sys(game, file)))

CallFire ==
    /\ inputs < MaxCalls
    /\ \E d \in Dirs : Handled(fire_arrow(Sys(game, file), d[1], d[2], now))

CallCancelAim == inputs < MaxCalls /\ Handled(cancel_aim(Sys(game, file)))

CallUpdateArrow ==
    /\ LET S == update_arrow(Sys(game, file), now)
       IN  /\ game' = S.game
           /\ file' = S.file
           /\ peak' = Max(peak, S.game.score)
    /\ UNCHANGED <<now, buttons, prev_state, gens, inputs, loaded, last>>

NextEngine ==
    \/ CallStart
    \/ CallMove
    \/ CallGrab
    \/ CallEnterAim
    \/ CallFire
    \/ CallCancelAim
    \/ CallUpdateArrow

SpecEngine == Init /\ [][NextEngine]_vars

(***************************************************************************)
(* SpecStore: the high-score functions called directly, in any order, for  *)
(* several grid sizes, while the clock advances.  No engine exists yet     *)
(* (main() reads the store in the grid-size menu).                         *)
(***************************************************************************)
StoreSizes  == {4, 6}
StoreScores == {0 - 50, 0, 300, 500}

InitStore ==
    /\ file = NoFile
    /\ game = BlankGame(GridSize)
    /\ now = 1
    /\ buttons = {}
    /\ prev_state = "MENU"
    /\ gens = 0
    /\ inputs = 0
    /\ loaded = 0
    /\ peak = 0
    /\ last = NoCall

StoreSave ==
    /\ inputs < MaxSaves
    /\ \E g \in StoreSizes, s \in StoreScores :
         /\ file' = save_high_score(file, g, s, now)
         /\ last' = [op |-> "save", gs |-> g, score |-> s,
                     before |-> StoredScore(file, g), result |-> 0]
    /\ inputs' = inputs + 1
    /\ UNCHANGED <<game, now, buttons, prev_state, gens, loaded, peak>>

StoreLoad ==
    /\ \E g \in StoreSizes :
         last' = [op |-> "load", gs |-> g, score |-> 0, before |-> 0,
                  result |-> load_high_score(file, g)]
    /\ UNCHANGED <<game, file, now, buttons, prev_state, gens, inputs, loaded, peak>>

Tock ==
    /\ now < MaxTime
    /\ now' = now + 1
    /\ UNCHANGED <<game, file, buttons, prev_state, gens, inputs, loaded, peak, last>>

NextStore ==
    \/ StoreSave
    \/ StoreLoad
    \/ Tock

SpecStore == InitStore /\ [][NextStore]_vars

(***************************************************************************)
(* PROPERTIES                                                              *)
(***************************************************************************)
\* A step inside one game instance (no board was generated by it).
SameInstance == gens' = gens

\* A step in which the agent changed cell: an accepted move.
MoveStep == SameInstance /\ game'.agent_pos # game.agent_pos

\* A step in which the arrow was fired.
FireStep == SameInstance /\ ~game.arrow_used /\ game'.arrow_used

\* A step in which the gold was taken.
GrabStep == SameInstance /\ ~game.has_gold /\ game'.has_gold

\* A step in which the wumpus died.
KillStep == SameInstance /\ game.wumpus_alive /\ ~game'.wumpus_alive

\* A step in which a flying arrow left the grid.
MissStep ==
    SameInstance /\ InFlight(game) /\ game'.arrow.done /\ ~game'.arrow.hit_wumpus

Lethal(g, cell) == cell \in g.pits \/ (cell = g.wumpus /\ g.wumpus_alive)

Gain == game'.score - game.score

\* C1: on every board held by the engine (after construction, START GAME,
\* RESTART, PLAY AGAIN or r) the wumpus cell, the gold cell, the pit cells
\* and (0,0) are pairwise distinct, all lie inside the grid, and there are
\* exactly grid_size pits.
C1_BoardWellFormed ==
    /\ game.wumpus # game.gold
    /\ game.wumpus \notin game.pits
    /\ game.gold \notin game.pits
    /\ Start00 \notin {game.wumpus, game.gold} \cup game.pits
    /\ ({game.wumpus, game.gold} \cup game.pits) \subseteq Cells(game.grid_size)
    /\ Cardinality(game.pits) = game.grid_size

\* A board drawn by a restart that followed the start.
C1_Witness ==
    /\ gens = 2
    /\ game.game_state = "PLAYING"
    /\ Cardinality({Start00, game.wumpus, game.gold} \cup game.pits)
         = game.grid_size + 3

\* C2: a move is accepted only in PLAYING; when its destination is a pit,
\* or the cell of the living wumpus, the same step sets agent_alive to
\* FALSE and game_state to GAME_OVER and leaves the score as it was; when
\* its destination is the cell of the slain wumpus (and no pit) the step
\* neither ends the game nor changes agent_alive.
C2_LethalMove ==
    [][MoveStep =>
        /\ game.game_state = "PLAYING"
        /\ Lethal(game, game'.agent_pos) =>
             /\ ~game'.agent_alive
             /\ game'.game_state = "GAME_OVER"
             /\ Gain = 0
        /\ (game'.agent_pos = game.wumpus /\ ~game.wumpus_alive
              /\ game'.agent_pos \notin game.pits) =>
             /\ game'.game_state # "GAME_OVER"
             /\ game'.agent_alive = game.agent_alive
      ]_vars

\* The agent made one safe move (score 10) and then fell into a pit.
C2_Witness ==
    /\ game.game_state = "GAME_OVER"
    /\ ~game.agent_alive
    /\ game.agent_pos \in game.pits
    /\ game.score = VisitBonus

\* C3: inside one game instance (0,0) is in scored_cells from the start,
\* scored_cells never loses a cell, a move onto a cell of scored_cells
\* leaves the score as it was, a move onto a safe cell outside scored_cells
\* adds exactly 10 and puts the cell into scored_cells, and the score rises
\* by 10 in no other step.
C3_VisitBonusOnce ==
    [][SameInstance =>
        /\ Start00 \in game.scored_cells
        /\ game.scored_cells \subseteq game'.scored_cells
        /\ (MoveStep /\ game'.agent_pos \in game.scored_cells) => Gain = 0
        /\ (MoveStep /\ game'.agent_pos \notin game.scored_cells
              /\ ~Lethal(game, game'.agent_pos)) =>
             /\ Gain = VisitBonus
             /\ game'.scored_cells = game.scored_cells \cup {game'.agent_pos}
        /\ Gain = VisitBonus =>
             /\ MoveStep
             /\ game'.agent_pos \notin game.scored_cells
             /\ game'.agent_pos \in game'.scored_cells
      ]_vars

\* The agent stepped onto a safe cell and back onto (0,0): the score is 10.
C3_Witness ==
    /\ game.agent_pos = Start00
    /\ game.agent_alive
    /\ Cardinality(game.visited) = 2
    /\ inputs = 2
    /\ game.score = VisitBonus

\* C4: the g key in PLAYING on the gold cell while not carrying sets
\* has_gold and adds exactly 1000 in that step; has_gold is set in no other
\* way, never reverts inside the instance, and 1000 is added only by the
\* step that sets it; a move that brings the living agent carrying the
\* gold onto (0,0) sets game_state to WIN in that step.
C4_GoldAndWin ==
    [][SameInstance =>
        /\ (KeyG /\ game.agent_pos = game.gold /\ ~game.has_gold) =>
             game'.has_gold /\ Gain = GoldBonus
        /\ GrabStep =>
             /\ game.game_state = "PLAYING"
             /\ game.agent_pos = game.gold
             /\ Gain = GoldBonus
        /\ game.has_gold => game'.has_gold
        /\ Gain = GoldBonus => GrabStep
        /\ (MoveStep /\ game.has_gold /\ game'.agent_alive
              /\ game'.agent_pos = Start00) => game'.game_state = "WIN"
      ]_vars

\* The agent stepped onto the gold, took it and stepped back onto (0,0).
C4_Witness ==
    /\ game.game_state = "WIN"
    /\ game.has_gold
    /\ game.agent_pos = Start00
    /\ game.score = VisitBonus + GoldBonus

\* C5: inside one game instance an arrow key in AIM fires: the same step
\* latches arrow_used, subtracts exactly 50 and launches a projectile that
\* is not yet resolved; arrow_used never reverts; the score drops by 50 in
\* no other step and never rises by 50; and once the arrow is used the
\* state AIM is never entered again and the projectile keeps its direction.
C5_ArrowCostOnce ==
    [][SameInstance =>
        /\ (KeyArrow /\ game.game_state = "AIM") => FireStep
        /\ FireStep =>
             /\ game.game_state = "AIM"
             /\ Gain = 0 - ArrowCost
             /\ InFlight(game')
             /\ ~game'.arrow.hit_wumpus
             /\ game'.wumpus_alive = game.wumpus_alive
        /\ game.arrow_used =>
             /\ game'.arrow_used
             /\ game'.game_state # "AIM"
             /\ game'.arrow.dr = game.arrow.dr
             /\ game'.arrow.dc = game.arrow.dc
        /\ Gain = 0 - ArrowCost => FireStep
        /\ Gain # ArrowCost
      ]_vars

\* The arrow was fired and left the grid, a third input was handled, and
\* the score shows the single charge.
C5_Witness ==
    /\ game.arrow_used
    /\ game.arrow.done
    /\ ~game.arrow.hit_wumpus
    /\ inputs = 3
    /\ game.score = 0 - ArrowCost

\* Ticks a flying arrow needs to cross one cell, and the ticks already
\* spent in the current one.
TicksPerCell == (FullCell + ArrowSpeed - 1) \div ArrowSpeed

TicksSpent(g) == g.arrow.frac \div ArrowSpeed

ArrowCell(g, j) == <<g.arrow.row + j * g.arrow.dr, g.arrow.col + j * g.arrow.dc>>

\* The wumpus lies ahead of the arrow, in its line of flight.
Ahead(g) == \E j \in 1 .. g.grid_size : ArrowCell(g, j) = g.wumpus

TicksToHit(g) ==
    (CHOOSE j \in 1 .. g.grid_size : ArrowCell(g, j) = g.wumpus) * TicksPerCell
      - TicksSpent(g)

\* Ticks until the arrow enters the first cell outside the grid.
TicksToExit(g) ==
    (CHOOSE j \in 1 .. g.grid_size :
        /\ ~InGrid(g.grid_size, ArrowCell(g, j)[1], ArrowCell(g, j)[2])
        /\ \A i \in 1 .. j - 1 :
             InGrid(g.grid_size, ArrowCell(g, i)[1], ArrowCell(g, i)[2]))
      * TicksPerCell - TicksSpent(g)

\* A step in which a flying arrow was advanced by a tick.
TickStep == SameInstance /\ InFlight(game) /\ game'.arrow # game.arrow

\* C6: the arrow starts on the agent's cell and the fire step costs 50;
\* every frame advances a flying arrow; while the living wumpus lies ahead
\* in the line of flight each tick brings the arrow one tick nearer, and
\* the tick that reaches the wumpus cell resolves the arrow as a hit,
\* kills the wumpus and adds exactly 300 (the wumpus dies in no other
\* way); while the wumpus does not lie ahead each tick brings the arrow
\* one tick nearer the edge, and the tick that leaves the grid resolves it
\* as a miss that changes neither the score nor the wumpus.
C6_ArrowFlight ==
    [][SameInstance =>
        /\ FireStep =>
             /\ ArrowCell(game', 0) = game.agent_pos
             /\ game'.arrow.frac = 0
             /\ <<game'.arrow.dr, game'.arrow.dc>> \in Dirs
             /\ Gain = 0 - ArrowCost
        /\ (Frame /\ InFlight(game)) => TickStep
        /\ (TickStep /\ Ahead(game)) =>
             IF TicksToHit(game) = 1
             THEN KillStep
             ELSE /\ InFlight(game') /\ Ahead(game')
                  /\ TicksToHit(game') = TicksToHit(game) - 1
                  /\ game'.wumpus_alive /\ Gain = 0
        /\ (TickStep /\ ~Ahead(game)) =>
             IF TicksToExit(game) = 1
             THEN MissStep
             ELSE /\ InFlight(game') /\ ~Ahead(game')
                  /\ TicksToExit(game') = TicksToExit(game) - 1
                  /\ Gain = 0
        /\ KillStep =>
             /\ TickStep /\ Ahead(game)
             /\ game'.arrow.done /\ game'.arrow.hit_wumpus
             /\ ArrowCell(game', 0) = game.wumpus
             /\ Gain = KillBonus
        /\ MissStep =>
             /\ TickStep /\ ~Ahead(game)
             /\ game'.wumpus_alive = game.wumpus_alive
             /\ Gain = 0
      ]_vars

\* The arrow fired from (0,0) crossed a cell and killed the wumpus two
\* cells away: the score is 0 - 50 + 300.
C6_Witness ==
    /\ ~game.wumpus_alive
    /\ game.arrow.done /\ game.arrow.hit_wumpus
    /\ game.wumpus \in {<<0, 2>>, <<2, 0>>}
    /\ game.score = KillBonus - ArrowCost

\* C7: over any sequence of save_high_score calls the stored score of a
\* grid size never decreases, and the record of a grid size changes only
\* in a save for that grid size whose score is strictly greater than the
\* stored one (which then becomes the stored score).
C7_StoredNeverDecreases ==
    [][\A g \in StoreSizes :
        /\ StoredScore(file', g) >= StoredScore(file, g)
        /\ Cardinality(Records(file', g)) <= 1
        /\ Records(file', g) # Records(file, g) =>
             /\ last'.op = "save" /\ last'.gs = g
             /\ last'.score > StoredScore(file, g)
             /\ StoredScore(file', g) = last'.score
        /\ (last'.op = "save" /\ last'.gs = g /\ inputs' # inputs
              /\ last'.score <= StoredScore(file, g)) => file' = file
      ]_vars

\* save(6, 500) then save(6, 300): the stored best is still 500.
C7_Witness ==
    /\ last.op = "save" /\ last.gs = 6 /\ last.score = 300
    /\ last.before = 500
    /\ StoredScore(file, 6) = 500

\* C8: a load_high_score(g) that directly follows a save_high_score(g, s)
\* with s greater than the score stored before the save returns s, and a
\* load for a grid size without a record returns 0.
C8_SaveLoadRoundTrip ==
    [][\A g \in StoreSizes :
        (last'.op = "load" /\ last'.gs = g /\ file' = file) =>
          /\ (last.op = "save" /\ last.gs = g /\ last.score > last.before) =>
               last'.result = last.score
          /\ Records(file, g) = {} => last'.result = 0
      ]_vars

\* Size 6 was loaded right after a save of 500 for it, while the file also
\* holds a record for size 4.
C8_Witness ==
    /\ last.op = "load" /\ last.gs = 6 /\ last.result = 500
    /\ StoredScore(file, 4) = 300

\* C9: in every state high_score >= score, high_score is the maximum of
\* the score loaded at construction and every score reached since (over
\* all game instances of the session), and whenever high_score > 0 the
\* record stored for the grid size holds exactly high_score.
C9_HighScoreIsPeak ==
    /\ game.high_score >= game.score
    /\ game.high_score = Max(loaded, peak)
    /\ game.high_score > 0 => StoredScore(file, game.grid_size) = game.high_score

\* After a restart the score is back below a high score that was set in
\* the previous instance and stands above the loaded one.
C9_Witness ==
    /\ gens = 2
    /\ game.score < game.high_score
    /\ loaded < game.high_score
    /\ StoredScore(file, game.grid_size) = game.high_score

\* C10 (as claimed): a call outside its valid state changes nothing: move,
\* grab and enter_aim_mode when game_state is not PLAYING, fire_arrow and
\* cancel_aim when game_state is not AIM, enter_aim_mode and fire_arrow
\* when the arrow is used.
C10_IllegalCallIgnored ==
    [][/\ (game.game_state # "PLAYING" /\ (CallMove \/ CallGrab \/ CallEnterAim))
            => UNCHANGED <<game, file>>
       /\ (game.game_state # "AIM" /\ (CallFire \/ CallCancelAim))
            => UNCHANGED <<game, file>>
       /\ (game.arrow_used /\ (CallEnterAim \/ CallFire))
            => UNCHANGED <<game, file>>
      ]_vars

(***************************************************************************)
(* SpecPercepts: one game instance on every board, each frame drawing the  *)
(* panel, which queries percepts(); `last` records the query.              *)
(***************************************************************************)
\* What percepts() reads.
PerceptInputs(g) ==
    <<g.agent_pos, g.pits, g.wumpus, g.wumpus_alive, g.gold, g.has_gold>>

\* Mutant of draw_panel: the query marks the neighbours as visited.
draw_panel_mut(g) ==
    [game     |-> [g EXCEPT !.visited = @ \cup adjacent(g, g.agent_pos)],
     percepts |-> IF g.game_state \in {"PLAYING", "AIM"} THEN percepts(g) ELSE {}]

\* draw_panel: the percept badges; the engine object is only read.
draw_panel(g) ==
    [game     |-> g,
     percepts |-> IF g.game_state \in {"PLAYING", "AIM"} THEN percepts(g) ELSE {}]

\* One pass of the loop body up to the event loop: update_arrow, then the
\* drawing, which queries percepts() in PLAYING and AIM only.
FrameDraw ==
    /\ LET S == update_arrow(Sys(game, file), now)
           D == draw_panel(S.game)
       IN  /\ game' = D.game
           /\ file' = S.file
           /\ peak' = Max(peak, D.game.score)
           /\ prev_state' = D.game.game_state
           /\ last' = IF S.game.game_state \in {"PLAYING", "AIM"}
                      THEN [op     |-> "percepts",
                            seen   |-> PerceptInputs(S.game),
                            result |-> D.percepts,
                            calls  |-> IF /\ last.op = "percepts"
                                          /\ last.seen = PerceptInputs(S.game)
                                       THEN 2 ELSE 1]
                      ELSE last
    /\ buttons' = IF game.game_state # prev_state
                  THEN build_buttons(game.game_state) ELSE buttons
    /\ UNCHANGED <<now, gens, inputs, loaded>>

PClickStart == gens = 0 /\ DoClickStart(Worlds)
PKeyArrow   == inputs < MaxInputsP /\ DoKeyArrow
PKeySpace   == inputs < MaxInputsP /\ DoKeySpace
PKeyG       == inputs < MaxInputsP /\ DoKeyG

NextPercepts ==
    \/ FrameDraw
    \/ PClickStart
    \/ PKeyArrow
    \/ PKeySpace
    \/ PKeyG

SpecPercepts == Init /\ [][NextPercepts]_vars

Abs(i) == IF i < 0 THEN 0 - i ELSE i

\* The in-grid cells at distance one from pos along a row or a column.
Neighbours(n, pos) ==
    {c \in Cells(n) : Abs(c[1] - pos[1]) + Abs(c[2] - pos[2]) = 1}

ExpectedPercepts(g) ==
    {x \in {"Breeze", "Stench", "Glitter"} :
       \/ x = "Breeze" /\ Neighbours(g.grid_size, g.agent_pos) \cap g.pits # {}
       \/ x = "Stench" /\ g.wumpus_alive
                       /\ g.wumpus \in Neighbours(g.grid_size, g.agent_pos)
       \/ x = "Glitter" /\ g.agent_pos = g.gold /\ ~g.has_gold}

\* C11: in every reachable state percepts() is exactly Breeze iff an
\* in-grid orthogonal neighbour of the agent is a pit, Stench iff the live
\* wumpus is on such a neighbour, Glitter iff the agent stands on the gold
\* not yet grabbed (also for the badges the panel has drawn for this
\* state); adjacent(pos) is, for every cell, exactly the in-grid cells at
\* distance one: none outside the grid, none wrapped around.
C11_PerceptsExact ==
    /\ percepts(game) = ExpectedPercepts(game)
    /\ \A pos \in Cells(game.grid_size) :
         adjacent(game, pos) = Neighbours(game.grid_size, pos)
    /\ (last.op = "percepts" /\ last.seen = PerceptInputs(game))
         => last.result = ExpectedPercepts(game)

\* The panel shows all three percepts for an agent on the top edge, away
\* from the start cell.
C11_Witness ==
    /\ last.op = "percepts"
    /\ last.seen = PerceptInputs(game)
    /\ last.result = {"Breeze", "Stench", "Glitter"}
    /\ game.agent_pos[1] = 0 /\ game.agent_pos # Start00

PlaceSizes == 1 .. MaxGrid

At(pos) == [op |-> pos]

InitPlace ==
    /\ \E n \in PlaceSizes : game = BlankGame(n)
    /\ file = NoFile
    /\ now = 1
    /\ buttons = {}
    /\ prev_state = "MENU"
    /\ gens = 0
    /\ inputs = 0
    /\ loaded = 0
    /\ peak = 0
    /\ last = At("call")

\* The exclusion list of the _rand call that is pending after k calls have
\* returned.
NextExclude(g, k) ==
    IF k = 0 THEN {Start00}
    ELSE IF k = 1 THEN {Start00, g.wumpus}
    ELSE {Start00, g.wumpus, g.gold} \cup g.pits

\* __init__ up to the call of _init_board, and _init_board up to its first
\* _rand call.
EnterInitBoard ==
    /\ last.op = "call"
    /\ game' = [game EXCEPT !.high_score = load_high_score(file, game.grid_size)]
    /\ last' = At("placing")
    /\ UNCHANGED <<file, now, buttons, prev_state, gens, inputs, loaded, peak>>

PlaceWumpus ==
    /\ last.op = "placing" /\ inputs = 0
    /\ \E c \in rand(game.grid_size, NextExclude(game, inputs)) :
         game' = [game EXCEPT !.wumpus = c]
    /\ inputs' = inputs + 1
    /\ UNCHANGED <<file, now, buttons, prev_state, gens, loaded, peak, last>>

PlaceGold ==
    /\ last.op = "placing" /\ inputs = 1
    /\ \E c \in rand(game.grid_size, NextExclude(game, inputs)) :
         game' = [game EXCEPT !.gold = c]
    /\ inputs' = inputs + 1
    /\ UNCHANGED <<file, now, buttons, prev_state, gens, loaded, peak, last>>

PlacePit ==
    /\ last.op = "placing" /\ inputs >= 2 /\ inputs < game.num_pits + 2
    /\ \E p \in rand(game.grid_size, NextExclude(game, inputs)) :
         game' = [game EXCEPT !.pits = @ \cup {p}]
    /\ inputs' = inputs + 1
    /\ UNCHANGED <<file, now, buttons, prev_state, gens, loaded, peak, last>>

ReturnBoard ==
    /\ last.op = "placing" /\ inputs = game.num_pits + 2
    /\ last' = At("returned")
    /\ UNCHANGED <<game, file, now, buttons, prev_state, gens, inputs, loaded, peak>>

NextPlace ==
    \/ EnterInitBoard
    \/ PlaceWumpus
    \/ PlaceGold
    \/ PlacePit
    \/ ReturnBoard

SpecPlace == InitPlace /\ [][NextPlace]_vars

\* A _rand call is pending.
Pending == last.op = "placing" /\ inputs < game.num_pits + 2

TooSmall(n) == n * n < n + 3

\* C14 (as claimed): a construction with a grid size too small is rejected
\* before any placement begins: it never gets into _init_board.
C14_TooSmallRejected ==
    TooSmall(game.grid_size) => last.op \in {"call", "rejected"}

\* C15: a save_high_score(g, s) leaves the record (score and date) of
\* every other grid size unchanged, whether or not it updates the record
\* of g.
C15_OtherSizesKept ==
    [][\A g \in StoreSizes :
         (last'.op = "save" /\ last'.gs # g)
           => Records(file', g) = Records(file, g)
      ]_vars

\* The record of size 6, written at time 1, is intact after a later save
\* that wrote the record of size 4.
C15_Witness ==
    /\ last.op = "save" /\ last.gs = 4 /\ last.score > last.before
    /\ Records(file, 6) = {Row(6, 500, 1)}
    /\ Records(file, 4) = {Row(4, 300, 2)}

(***************************************************************************)
(* SpecStoreFail: SpecStore plus saves whose write fails part-way.         *)
(***************************************************************************)
\* save_high_score when the write fails after k rows went out: the file was
\* opened with mode 'w', which empties it, and the except clause of the
\* write swallows the error.
save_high_score_failing(f, grid_size, score, t, k) ==
    LET scores       == IF f.exists THEN read_scores(f.rows, EmptyDict)
                        ELSE EmptyDict
        current_high == IF grid_size \in DOMAIN scores
                        THEN scores[grid_size].score ELSE 0
        updated      == [j \in DOMAIN scores \cup {grid_size} |->
                            IF j = grid_size
                            THEN [score |-> score, date |-> t]
                            ELSE scores[j]]
        new_rows     == sorted_rows(updated, DOMAIN updated)
    IN  IF score > current_high
        THEN [exists |-> TRUE,
              rows   |-> SubSeq(new_rows, 1, IF k < Len(new_rows) THEN k ELSE Len(new_rows) - 1)]
        ELSE f

StoreSaveFail ==
    /\ inputs < MaxSaves
    /\ \E g \in StoreSizes, s \in StoreScores, k \in 0 .. Cardinality(StoreSizes) - 1 :
         /\ s > load_high_score(file, g)
         /\ file' = save_high_score_failing(file, g, s, now, k)
         /\ last' = [op |-> "save_failed", gs |-> g, score |-> s,
                     before |-> StoredScore(file, g), result |-> 0,
                     raised |-> FALSE]
    /\ inputs' = inputs + 1
    /\ UNCHANGED <<game, now, buttons, prev_state, gens, loaded, peak>>

NextStoreFail ==
    \/ StoreSave
    \/ StoreLoad
    \/ Tock
    \/ StoreSaveFail

SpecStoreFail == InitStore /\ [][NextStoreFail]_vars

\* C16 (as claimed): when the write of save_high_score fails after it has
\* started, the file still holds every record it held before the call, and
\* no exception reaches the caller.
C16_FailedWriteKeepsFile ==
    [][(last'.op = "save_failed" /\ inputs' # inputs) =>
         /\ \A g \in StoreSizes : Records(file', g) = Records(file, g)
         /\ ~last'.raised
      ]_vars

(***************************************************************************)
(* SpecStoreErr: the high-score functions on files that hold a malformed   *)
(* row (left by a hand edit or an interrupted write).                      *)
(***************************************************************************)
ErrFiles ==
    {[exists |-> TRUE, rows |-> rs] :
        rs \in {<<BadRow>>,
                <<Row(4, 300, 1), BadRow>>,
                <<BadRow, Row(6, 500, 1)>>,
                <<Row(4, 300, 1), BadRow, Row(6, 500, 1)>>,
                <<Row(4, 300, 1), Row(6, 500, 1)>>}}

InitErr ==
    /\ file \in ErrFiles
    /\ game = BlankGame(GridSize)
    /\ now = 1
    /\ buttons = {}
    /\ prev_state = "MENU"
    /\ gens = 0
    /\ inputs = 0
    /\ loaded = 0
    /\ peak = 0
    /\ last = NoCall

ErrLoad ==
    /\ \E g \in StoreSizes :
         last' = [op |-> "load", gs |-> g, result |-> load_high_score(file, g),
                  raised |-> FALSE]
    /\ UNCHANGED <<game, file, now, buttons, prev_state, gens, inputs, loaded, peak>>

ErrGetAll ==
    /\ last' = [op |-> "get_all", gs |-> 0, result |-> get_all_high_scores(file),
                raised |-> FALSE]
    /\ UNCHANGED <<game, file, now, buttons, prev_state, gens, inputs, loaded, peak>>

\* The save a scoring event makes.
ErrSave ==
    /\ inputs < MaxSaves
    /\ \E g \in StoreSizes, s \in StoreScores :
         /\ file' = save_high_score(file, g, s, now)
         /\ last' = [op |-> "save", gs |-> g, result |-> s, raised |-> FALSE]
    /\ inputs' = inputs + 1
    /\ UNCHANGED <<game, now, buttons, prev_state, gens, loaded, peak>>

NextErr ==
    \/ ErrLoad
    \/ ErrGetAll
    \/ ErrSave

SpecStoreErr == InitErr /\ [][NextErr]_vars

\* load_high_score(grid_size) meets a malformed row before a matching one.
RECURSIVE LoadHitsError(_, _)
LoadHitsError(rows, grid_size) ==
    IF rows = <<>> THEN FALSE
    ELSE IF Malformed(Head(rows)) THEN TRUE
    ELSE IF Head(rows).grid_size = grid_size THEN FALSE
    ELSE LoadHitsError(Tail(rows), grid_size)

\* A reader of the whole file meets a malformed row.
ReadHitsError(f) == \E i \in DOMAIN f.rows : Malformed(f.rows[i])

\* C17 (as claimed): a parse error of the store is treated as no data and
\* never raised: load_high_score returns 0, get_all_high_scores returns the
\* empty mapping, neither modifies the store, and the saves of scoring
\* events raise nothing.
C17_ReadErrorIsNoData ==
    [][last'.op # "none" =>
         /\ last'.op \in {"load", "get_all"} => file' = file
         /\ (last'.op = "load" /\ LoadHitsError(file'.rows, last'.gs))
              => last'.result = 0
         /\ (last'.op = "get_all" /\ ReadHitsError(file'))
              => last'.result = EmptyDict
         /\ ~last'.raised
      ]_vars

\* A step that generated a board once the menu was left: RESTART, PLAY
\* AGAIN or the r key (a START GAME click taken from a button list not yet
\* rebuilt runs the same _init_board and sets PLAYING as well).
RestartStep == gens' = gens + 1 /\ game.game_state # "MENU"

\* C18: a restart (the RESTART or PLAY AGAIN button, the r key), from
\* whatever state it is accepted in, yields game_state PLAYING on a freshly
\* generated board, the agent at (0,0) alive without gold, the wumpus
\* alive, the arrow unused and no projectile (so a projectile in flight is
\* always one fired in the current instance), visited and scored_cells
\* equal to {(0,0)}, score 0, and high_score and the file as they were.
C18_RestartResets ==
    [][/\ RestartStep =>
            /\ game'.game_state = "PLAYING"
            /\ [wumpus |-> game'.wumpus, gold |-> game'.gold, pits |-> game'.pits]
                 \in Worlds
            /\ game'.agent_pos = Start00
            /\ game'.agent_alive /\ ~game'.has_gold /\ game'.wumpus_alive
            /\ ~game'.arrow_used /\ game'.arrow = NoArrow
            /\ game'.visited = {Start00} /\ game'.scored_cells = {Start00}
            /\ game'.score = 0
            /\ game'.high_score = game.high_score
            /\ file' = file
       /\ InFlight(game') => game'.arrow_used
      ]_vars

\* A restart after the previous instance fired its arrow and killed the
\* wumpus: the score is 0 again, the wumpus alive, the arrow unused, and
\* the high score still holds the 250 reached.
C18_Witness ==
    /\ gens = 2
    /\ peak = KillBonus - ArrowCost
    /\ game.high_score >= peak
    /\ game.score = 0 /\ game.game_state = "PLAYING"
    /\ game.wumpus_alive /\ ~game.arrow_used /\ game.arrow = NoArrow

\* C19: in every reachable state a move whose target lies outside the grid
\* changes nothing (position, visited, scored_cells, score, game_state and
\* every other field, and the file), and the agent's position is inside
\* the grid.
C19_OutsideMoveIgnored ==
    /\ InGrid(game.grid_size, game.agent_pos[1], game.agent_pos[2])
    /\ \A d \in Dirs :
         ~InGrid(game.grid_size, game.agent_pos[1] + d[1], game.agent_pos[2] + d[2])
           => move(Sys(game, file), d[1], d[2], now) = Sys(game, file)

\* Three keys were handled in PLAYING and the agent, having stepped to the
\* far corner of the top row, is still there with only two cells visited
\* besides the start: the third key was a move off the grid (or another
\* ignored key).
C19_Witness ==
    /\ game.game_state = "PLAYING" /\ inputs = 3
    /\ game.agent_pos = <<0, GridSize - 1>>
    /\ Cardinality(game.visited) = GridSize
    /\ ~game.has_gold /\ ~game.arrow_used

(***************************************************************************)
(* SpecTicks: one game instance in which the arrow can be aimed and fired, *)
(* with the frames that keep coming: `while running` calls update_arrow in *)
(* every iteration, so a frame that would advance the projectile is        *)
(* eventually taken.                                                       *)
(***************************************************************************)
TClickStart == gens = 0 /\ DoClickStart(Worlds)
TKeyArrow   == inputs < MaxInputsT /\ DoKeyArrow
TKeySpace   == inputs < MaxInputsT /\ DoKeySpace

NextTicks ==
    \/ Frame
    \/ TClickStart
    \/ TKeyArrow
    \/ TKeySpace

SpecTicks == Init /\ [][NextTicks]_vars /\ WF_vars(Frame)

Resolved(g) == g.arrow # NoArrow /\ g.arrow.done

\* C20: every fired arrow is eventually resolved when frames keep coming
\* and no restart discards it: a projectile in flight is inside the grid
\* with at most gridSize cell-advances left before it would leave it, and
\* it always reaches done = TRUE.
C20_ArrowResolves ==
    /\ [](InFlight(game) =>
            /\ InGrid(game.grid_size, game.arrow.row, game.arrow.col)
            /\ TicksToExit(game) <= game.grid_size * TicksPerCell)
    /\ (InFlight(game) ~> Resolved(game))

\* An arrow fired across the whole top row has left the grid: a miss after
\* gridSize cell-advances.
C20_Witness ==
    /\ Resolved(game) /\ ~game.arrow.hit_wumpus
    /\ game.arrow.row = 0 /\ game.arrow.col = game.grid_size
    /\ game.agent_pos = Start00

\* C21: the projectile step rule.  A frame over a flying arrow whose
\* progress stays below 1.0 only adds the speed to it.  A frame that brings
\* the progress to 1.0 or more resets it to 0 and advances the arrow exactly
\* one cell in its direction; the new cell is a hit when the wumpus is alive
\* on it (resolved, wumpus dead, +300), else a miss when it is outside the
\* grid (resolved, score and wumpus unchanged), else the arrow keeps flying
\* (score unchanged).  A frame over a resolved arrow changes nothing.
C21_ProjectileStep ==
    [][Frame =>
        /\ Resolved(game) => (game' = game /\ file' = file)
        /\ (InFlight(game) /\ game.arrow.frac + ArrowSpeed < FullCell) =>
             game' = [game EXCEPT !.arrow.frac = @ + ArrowSpeed]
        /\ (InFlight(game) /\ game.arrow.frac + ArrowSpeed >= FullCell) =>
             /\ game'.arrow.frac = 0
             /\ ArrowCell(game', 0) = ArrowCell(game, 1)
             /\ game'.arrow.dr = game.arrow.dr /\ game'.arrow.dc = game.arrow.dc
             /\ IF game.wumpus_alive /\ ArrowCell(game, 1) = game.wumpus
                THEN /\ game'.arrow.done /\ game'.arrow.hit_wumpus
                     /\ ~game'.wumpus_alive
                     /\ Gain = KillBonus
                ELSE /\ game'.arrow.done
                       = ~InGrid(game.grid_size, ArrowCell(game, 1)[1],
                                 ArrowCell(game, 1)[2])
                     /\ ~game'.arrow.hit_wumpus
                     /\ game'.wumpus_alive = game.wumpus_alive
                     /\ Gain = 0
      ]_vars

\* The arrow fired from the start cell has entered the next cell, with its
\* progress back at 0, and flies on.
C21_Witness ==
    /\ InFlight(game) /\ game.arrow.frac = 0
    /\ game.agent_pos = Start00
    /\ ArrowCell(game, 0) \in {<<0, 1>>, <<1, 0>>}

\* C22: GAME_OVER and WIN are left only by a restart: within a game
\* instance, no step taken from game_state GAME_OVER or WIN changes
\* game_state, the agent's position, agent_alive or has_gold, also when the
\* step is an input handled in the frame that ended the game, against the
\* button list built for the state before it.
C22_TerminalAbsorbing ==
    [][(game.game_state \in {"GAME_OVER", "WIN"} /\ SameInstance) =>
        /\ game'.game_state = game.game_state
        /\ game'.agent_pos = game.agent_pos
        /\ game'.agent_alive = game.agent_alive
        /\ game'.has_gold = game.has_gold
      ]_vars

\* C23: PAUSED is entered only from PLAYING and left, within the instance,
\* only to PLAYING; AIM is left, within the instance, only to PLAYING and
\* only by firing the arrow or by cancel_aim().
C23_PauseAndAimExits ==
    [][SameInstance =>
        /\ (game'.game_state = "PAUSED" /\ game.game_state # "PAUSED")
              => game.game_state = "PLAYING"
        /\ (game.game_state = "PAUSED" /\ game'.game_state # "PAUSED")
              => game'.game_state = "PLAYING"
        /\ (game.game_state = "AIM" /\ game'.game_state # "AIM")
              => /\ game'.game_state = "PLAYING"
                 /\ \/ FireStep
                    \/ Sys(game', file') = cancel_aim(Sys(game, file))
      ]_vars

\* A step in which ESC or SPACE was pressed while aiming: cancel_aim().
CancelStep == game.game_state = "AIM" /\ (KeyEscape \/ KeySpace)

\* C24: aiming is possible only while the arrow is unused.  In every
\* reachable state game_state = AIM implies arrow_used = FALSE; once the
\* arrow is used no step of the same instance enters AIM; and cancelling the
\* aim changes game_state to PLAYING and nothing else (score, arrow_used,
\* projectile, world and file are kept), so that enter_aim_mode() is
\* accepted again from the state it leaves.
C24_AimOnlyUnused ==
    /\ [](game.game_state = "AIM" => ~game.arrow_used)
    /\ [][/\ (game.arrow_used /\ SameInstance) => game'.game_state # "AIM"
          /\ CancelStep =>
               /\ game' = [game EXCEPT !.game_state = "PLAYING"]
               /\ file' = file
               /\ ~game'.arrow_used /\ game'.arrow = NoArrow
               /\ enter_aim_mode(Sys(game', file')).game.game_state = "AIM"
        ]_vars

\* The engine is aiming, arrow unused, after three handled inputs at the
\* start cell, as after SPACE, ESC, SPACE: an aim cancelled and taken up again.
C24_Witness ==
    /\ game.game_state = "AIM" /\ ~game.arrow_used
    /\ inputs = 3
    /\ game.visited = {Start00}

\* C25: within a game instance the world is fixed.  Every step that does
\* not generate a board (moves, grab, aiming, firing, cancelling, pause,
\* resume and frames) keeps the wumpus cell, the gold cell, the pit set,
\* num_pits and grid_size; wumpus_alive can only go from TRUE to FALSE and
\* stays FALSE for the rest of the instance.
C25_WorldFixed ==
    [][SameInstance =>
        /\ game'.wumpus = game.wumpus
        /\ game'.gold = game.gold
        /\ game'.pits = game.pits
        /\ game'.num_pits = game.num_pits
        /\ game'.grid_size = game.grid_size
        /\ game'.wumpus_alive => game.wumpus_alive
      ]_vars

\* In an instance started by a restart the gold has been picked up and the
\* wumpus is still where the board put it.
C25_Witness ==
    /\ gens = 2
    /\ game.has_gold
    /\ game.gold = game.agent_pos
    /\ game.wumpus \in Cells(game.grid_size)

\* 1 when the flag is set, else 0.
Ind(b) == IF b THEN 1 ELSE 0

\* C26: the score accounting identity.  In every reachable state
\*   score = 10 * (|scored_cells| - 1) + 1000 * [has_gold]
\*           + 300 * [wumpus dead] - 50 * [arrow_used],
\* and so score >= -50.
C26_ScoreIdentity ==
    /\ game.score = VisitBonus * (Cardinality(game.scored_cells) - 1)
                    + GoldBonus * Ind(game.has_gold)
                    + KillBonus * Ind(~game.wumpus_alive)
                    - ArrowCost * Ind(game.arrow_used)
    /\ game.score >= 0 - ArrowCost

\* The wumpus was shot from the start cell and one new cell was entered:
\* 300 - 50 + 10.
C26_Witness ==
    /\ game.score = 260
    /\ ~game.wumpus_alive /\ game.arrow_used
    /\ Cardinality(game.scored_cells) = 2

\* C27: in every reachable state game_state = GAME_OVER exactly when
\* agent_alive = FALSE: a dead agent is never in PLAYING, AIM or PAUSED.
C27_DeadIffGameOver ==
    (game.game_state = "GAME_OVER") <=> ~game.agent_alive

(***************************************************************************)
(* SpecWin: main() on the boards whose gold lies next to the start cell,   *)
(* so that a game can be won (step onto the gold, g, step back) and one    *)
(* more input of the winning frame be handled.                             *)
(***************************************************************************)
WinWorlds == {w \in Worlds : w.gold \in {<<0, 1>>, <<1, 0>>}}

InitWin == Constructed(WinWorlds, {NoFile})

WClickStart  == gens = 0 /\ DoClickStart(WinWorlds)
WClickPause  == inputs < MaxInputsW /\ DoClickPause
WClickResume == inputs < MaxInputsW /\ DoClickResume
WKeyArrow    == inputs < MaxInputsW /\ DoKeyArrow
WKeySpace    == inputs < MaxInputsW /\ DoKeySpace
WKeyEscape   == inputs < MaxInputsW /\ DoKeyEscape
WKeyG        == inputs < MaxInputsW /\ DoKeyG
WKeyP        == inputs < MaxInputsW /\ DoKeyP

NextWin ==
    \/ Frame
    \/ WClickStart
    \/ WClickPause
    \/ WClickResume
    \/ WKeyArrow
    \/ WKeySpace
    \/ WKeyEscape
    \/ WKeyG
    \/ WKeyP

SpecWin == InitWin /\ [][NextWin]_vars

\* C28: in every reachable state game_state = WIN exactly when the agent
\* carries the gold and stands on (0,0).
C28_WinIffHome ==
    (game.game_state = "WIN") <=> (game.has_gold /\ game.agent_pos = Start00)

\* C29: in every reachable state (0,0) and the agent's cell are in visited,
\* scored_cells is a subset of visited and holds no pit cell, visited equals
\* scored_cells while the agent is alive, and at most one visited cell is
\* unscored: the lethal cell on which the agent died.
C29_VisitedAndScored ==
    /\ Start00 \in game.visited
    /\ game.agent_pos \in game.visited
    /\ game.scored_cells \subseteq game.visited
    /\ game.scored_cells \cap game.pits = {}
    /\ game.agent_alive => game.visited = game.scored_cells
    /\ Cardinality(game.visited \ game.scored_cells) <= 1

\* C30: in every reachable state a projectile exists exactly when
\* arrow_used is TRUE, and the wumpus is dead exactly when that projectile
\* is resolved with hit_wumpus = TRUE; so a dead wumpus implies a used arrow.
C30_ArrowAndWumpus ==
    /\ (game.arrow # NoArrow) <=> game.arrow_used
    /\ ~game.wumpus_alive
         <=> (game.arrow # NoArrow /\ game.arrow.done /\ game.arrow.hit_wumpus)
    /\ ~game.wumpus_alive => game.arrow_used

\* The arrow of the current instance has reached the wumpus's cell: it is
\* resolved there with hit_wumpus = TRUE and the wumpus is dead.
C30_Witness ==
    /\ game.arrow_used /\ game.arrow # NoArrow
    /\ game.arrow.done /\ game.arrow.hit_wumpus
    /\ ArrowCell(game, 0) = game.wumpus
    /\ ~game.wumpus_alive

\* C31: the flight of the arrow is driven by frames alone, whatever
\* game_state is.  Every frame over an unresolved arrow applies one tick of
\* update_arrow: the projectile changes (its progress grows, or it enters the
\* next cell) while game_state and the agent stay as they are, in PLAYING,
\* AIM, PAUSED, GAME_OVER and WIN alike; and a frame that kills the wumpus
\* adds 300, lifts high_score to the new score when that is larger, and then
\* stores it in the file under the grid size.
C31_FlightNotGated ==
    [][(InFlight(game) /\ Frame) =>
        /\ Sys(game', file') = update_arrow(Sys(game, file), now)
        /\ game'.arrow # game.arrow
        /\ game'.game_state = game.game_state
        /\ game'.agent_pos = game.agent_pos
        /\ game'.agent_alive = game.agent_alive
        /\ (game.wumpus_alive /\ ~game'.wumpus_alive) =>
             /\ Gain = KillBonus
             /\ game'.high_score = Max(game.high_score, game'.score)
             /\ game'.score > game.high_score =>
                  StoredScore(file', game.grid_size) = game'.score
      ]_vars

\* The agent walked onto the living wumpus after shooting at it (the cell is
\* visited but never scored) and the arrow arrived afterwards: the game is
\* over, the wumpus is dead, and the 250 points are the stored high score.
C31_Witness ==
    /\ game.game_state = "GAME_OVER" /\ ~game.agent_alive
    /\ game.agent_pos = game.wumpus
    /\ game.wumpus \in game.visited \ game.scored_cells
    /\ ~game.wumpus_alive /\ game.arrow.done /\ game.arrow.hit_wumpus
    /\ game.score = KillBonus - ArrowCost
    /\ game.high_score = game.score
    /\ StoredScore(file, game.grid_size) = game.score

\* The game was paused while the arrow flew and the arrow killed the wumpus
\* during the pause.
C31_WitnessPaused ==
    /\ game.game_state = "PAUSED" /\ inputs = 3
    /\ ~game.wumpus_alive /\ game.arrow.hit_wumpus
    /\ game.score = KillBonus - ArrowCost

=============================================================================
